---------------------------- MODULE Spec2Model ----------------------------
(***************************************************************************)
(* MCPManager (src/src/mcp_process_manager.py): the supervisor of the      *)
(* local MCP helper services.  The model follows start_all, _start_one,    *)
(* _wait_healthy and stop_all statement by statement; one action is one    *)
(* blocking library call (Popen, poll, terminate, kill, close, an HTTP     *)
(* GET, a sleep) together with the straight-line code around it.           *)
(*                                                                         *)
(* Time is counted in ticks.  In _wait_healthy one tick is the 0.5 s poll  *)
(* sleep; in stop_all one tick is the 0.1 s poll sleep of Phase 2.         *)
(***************************************************************************)
EXTENDS Integers, Sequences, FiniteSets, TLC

\* ------------------------------------------------------------ constants

\* len(self.configs): the two descriptors built in __init__.
NumConfigs == 2

\* requests.get(..., timeout=1): 1 s = 2 ticks of 0.5 s.
ReqTimeout == 2

\* time.sleep(0.5) in _wait_healthy: one tick.
PollSleep == 1

\* time.sleep(0.1) in Phase 2 of stop_all: one tick of that loop.
StopSleep == 1

\* ------------------------------------------------------------ bounds

\* Popen / log-file objects created in one behaviour.
MaxObjs == 4

\* cfg.start_timeout in ticks (20.0 s in the source; scaled down).
StartTimeout == 2

\* Phase 2 allowance per tracked process in ticks (2 s in the source,
\* i.e. 20 sleeps of 0.1 s; scaled down).
StopWaitPerProc == 1

\* Calls of poll, terminate, kill, wait and close in stop_all that raise
\* in one behaviour of SpecFaults.
MaxFaults == 1

\* The largest max_retries of a direct call of _retry_request.
MaxRetries == 4

\* Sessions created in one behaviour of the state manager.
MaxSessions == 1

\* Entries of one session's log.
MaxLogs == 2

\* Days the quota tracker lives through.
MaxDay == 2

\* The largest persisted usage counter.
MaxUsed == 3

\* ------------------------------------------------------------ universe

Names == 1..NumConfigs
Objs == 1..MaxObjs
Thread == {1, 2}

\* How a declared service behaves:
\*   good     the executable exists; its HTTP answers are unconstrained
\*   bad_exe  the command names no executable: Popen always raises
\*   no_port  the process runs but never opens its port: every GET raises
Kinds == {"good", "bad_exe", "no_port"}

\*   steady   the log file opens and the executable starts every time; a
\*            health request is answered 200 within the tick
SteadyKinds == {"steady"}

VARIABLES
    config,      \* [Names -> Kinds], fixed from the initial state on
    procs,       \* self.procs, an insertion-ordered dict: Seq(<<name, obj>>)
    log_files,   \* self._log_files, likewise
    started,     \* self.started
    nobjs,       \* objects created so far; the next one is nobjs + 1
    alive,       \* [Objs -> BOOLEAN]: the child process of the object runs
    isopen,      \* [Objs -> BOOLEAN]: the log file of the object is open
    pc,          \* [Thread -> label]: where each caller stands
    ret,         \* [Thread -> label]: who called the running stop_all
    idx,         \* [Thread -> Nat]: position in the current for loop
    errors,      \* [Thread -> Seq(error)]: start_all's local list
    items,       \* [Thread -> Seq(<<name, obj>>)]: list(d.items()) of a phase
    elapsed,     \* [Thread -> Nat]: time.time() - (start of the loop)
    deadline,    \* [Thread -> Nat]: deadline - (start of the loop)
    tried_root,  \* [Thread -> BOOLEAN]
    new_obj,     \* [Thread -> 0..MaxObjs]: proc/log_file locals of _start_one
    budget,      \* library calls on live handles that may still raise
    h            \* [Thread -> record]: what the current / last call did

\* GenerationStateManager (src/src/generation_state.py)
VARIABLES
    lock,        \* self._lock, a threading.Lock: 0 when free, else its holder
    sessions,    \* self._sessions: [SIDs -> session], .exists FALSE when absent
    gpc,         \* [Thread -> label]: where each caller of the manager stands
    frames,      \* [Thread -> Seq(method)]: the manager methods it is inside
    gop          \* [Thread -> record]: the current / last call of the manager

\* The quota tracker (src/src/google_quota.py)
VARIABLES
    quota_file,  \* the content of logs/google_quota.json
    today,       \* datetime.utcnow().strftime("%Y-%m-%d"), as a day number
    qlast        \* the last call of the tracker: what it found and returned

\* _retry_request and the client wrappers (src/src/mcp_http_clients.py)
VARIABLES
    caller,      \* the wrapper that called _retry_request, "none" if none did
    max_retries, \* the max_retries argument of the call
    attempt,     \* the loop variable of `for attempt in range(max_retries)`
    rpc,         \* where the call stands: idle, attempt (func) or backoff
    calls,       \* what the call did so far: Seq of calls of func and sleeps
    rout         \* how the last call ended

mcp == <<config, procs, log_files, started, nobjs, alive, isopen, pc, ret,
         idx, errors, items, elapsed, deadline, tried_root, new_obj, budget, h>>

gsm == <<lock, sessions, gpc, frames, gop>>

quota == <<quota_file, today, qlast>>

retry == <<caller, max_retries, attempt, rpc, calls, rout>>

vars == <<mcp, gsm, quota, retry>>

sup == <<procs, log_files, started>>
os == <<nobjs, alive, isopen>>

\* ------------------------------------------------------------ dict helpers

Keys(d) == {d[k][1] : k \in DOMAIN d}

Values(d) == {d[k][2] : k \in DOMAIN d}

Has(d, n) == n \in Keys(d)

Get(d, n) == d[CHOOSE k \in DOMAIN d : d[k][1] = n][2]

Put(d, n, v) ==
    IF Has(d, n)
    THEN [k \in DOMAIN d |-> IF d[k][1] = n THEN <<n, v>> ELSE d[k]]
    ELSE Append(d, <<n, v>>)

\* ------------------------------------------------------------ history

\* An entry of the errors list, f"{cfg.name} failed to start: {e}" or
\* f"{cfg.name} unhealthy: {msg}".
Err(n, what, why) == [name |-> n, what |-> what, why |-> why]

NoCall ==
    [op |-> "none", out |-> "none", errType |-> "none", err |-> <<>>,
     prevOp |-> "none", prevOut |-> "none",
     eStarted |-> FALSE, eProcs |-> <<>>, eLogs |-> <<>>, eObjs |-> 0,
     attempted |-> {}, spawned |-> {}, spawnFailed |-> {},
     callObjs |-> {}, callProcs |-> {}, healthy |-> {},
     checked |-> {}, http |-> FALSE, unhealthy |-> {},
     rootAnswered |-> {}, sinceGet |-> "none", rootAsked |-> 0,
     polled |-> "none",
     sProcs |-> {}, sLogs |-> {}, waitedOut |-> {},
     termTried |-> {}, killTried |-> {},
     terms |-> {}, kills |-> {}, closes |-> {}, faults |-> {}]

\* The record of a call that starts now.
NewCall(t, op) ==
    [NoCall EXCEPT !.op = op, !.out = "running",
                   !.prevOp = h[t].op, !.prevOut = h[t].out,
                   !.eStarted = started, !.eProcs = procs,
                   !.eLogs = log_files, !.eObjs = nobjs]

\* The call of thread t ends: it returns, or raises err of type ty.
Finish(t, hh, out, ty, err) ==
    /\ pc' = [pc EXCEPT ![t] = "idle"]
    /\ h' = [h EXCEPT ![t] = [hh EXCEPT !.out = out, !.errType = ty, !.err = err]]

Goto(t, l) == pc' = [pc EXCEPT ![t] = l]

\* A call begins with none of the locals of the calls before it.
FreshLocals(t) ==
    /\ idx' = [idx EXCEPT ![t] = 1]
    /\ errors' = [errors EXCEPT ![t] = <<>>]
    /\ items' = [items EXCEPT ![t] = <<>>]
    /\ elapsed' = [elapsed EXCEPT ![t] = 0]
    /\ deadline' = [deadline EXCEPT ![t] = 0]
    /\ tried_root' = [tried_root EXCEPT ![t] = FALSE]
    /\ ret' = [ret EXCEPT ![t] = "top"]

\* A library call of stop_all on a live handle (poll, terminate, kill,
\* wait, close) may raise.
F == budget > 0

\* The outcomes in which such a call raised.
Raised(r) ==
    r \in {"poll_raise", "terminate_raise", "kill_raise", "wait_raise",
           "close_raise_open", "close_raise_closed"}

Spend(r) == budget' = IF Raised(r) THEN budget - 1 ELSE budget

\* ------------------------------------------------------------ initial state

\* MCPManager.__init__: nothing tracked, nothing started; no call in
\* progress.
Fresh ==
    /\ procs = <<>>
    /\ log_files = <<>>
    /\ started = FALSE
    /\ nobjs = 0
    /\ alive = [o \in Objs |-> FALSE]
    /\ isopen = [o \in Objs |-> FALSE]
    /\ pc = [t \in Thread |-> "idle"]
    /\ ret = [t \in Thread |-> "top"]
    /\ idx = [t \in Thread |-> 1]
    /\ errors = [t \in Thread |-> <<>>]
    /\ items = [t \in Thread |-> <<>>]
    /\ elapsed = [t \in Thread |-> 0]
    /\ deadline = [t \in Thread |-> 0]
    /\ tried_root = [t \in Thread |-> FALSE]
    /\ new_obj = [t \in Thread |-> 0]
    /\ h = [t \in Thread |-> NoCall]

Constructed == config \in [Names -> Kinds] /\ Fresh

\* GenerationStateManager.__init__: no session, the lock free; no call of
\* the manager in progress.
SIDs == 1..MaxSessions

NoSession ==
    [exists |-> FALSE, status |-> "none", progress |-> 0, logs |-> <<>>,
     error |-> FALSE]

NoManagerCall == [op |-> "none", sid |-> 0, existed |-> FALSE, out |-> "none"]

ManagerConstructed ==
    /\ lock = 0
    /\ sessions = [s \in SIDs |-> NoSession]
    /\ gpc = [t \in Thread |-> "idle"]
    /\ frames = [t \in Thread |-> <<>>]
    /\ gop = [t \in Thread |-> NoManagerCall]

\* What logs/google_quota.json can hold: nothing (no file), something that
\* json.load rejects, or a record {"date": d, "used": u}.
Days == 1..MaxDay

QuotaRecords == [date : Days, used : 0..MaxUsed]

NoFile == [date |-> 0, used |-> 0]

Corrupt == [date |-> 0, used |-> 1]

QuotaFiles == {NoFile, Corrupt} \cup QuotaRecords

NoQuotaCall == [op |-> "none", before |-> NoFile, result |-> FALSE]

\* The tracker has not been used: no file yet.
QuotaUnused == quota_file = NoFile /\ today = 1 /\ qlast = NoQuotaCall

\* No request has been made through _retry_request.
NoResult == [out |-> "none", val |-> "none"]

RetryUnused ==
    /\ caller = "none"
    /\ max_retries = 0
    /\ attempt = 0
    /\ rpc = "idle"
    /\ calls = <<>>
    /\ rout = NoResult

Init ==
    /\ Constructed /\ budget = 0 /\ ManagerConstructed /\ QuotaUnused
    /\ RetryUnused

\* ------------------------------------------------------------ start_all

\* start_all(): `if self.started: return`, else `errors = []` and the
\* spawn loop begins.  A call that would spawn is taken only while objects
\* are left for every descriptor (the bound of the model).
AlreadyStartedIgnored == FALSE

\* The other caller.
Other(t) == CHOOSE u \in Thread : u # t

\* The descriptors the spawn loop of thread u has still to go through.
ToSpawn(u) ==
    IF pc[u] = "sa_spawn" THEN NumConfigs + 1 - idx[u]
    ELSE IF pc[u] = "sa_track" THEN NumConfigs - idx[u]
    ELSE 0

\* `if self.started: return`
AlreadyStarted == started

start_all(t) ==
    /\ pc[t] = "idle"
    /\ started \/ nobjs + NumConfigs + ToSpawn(Other(t)) <= MaxObjs
    /\ FreshLocals(t)
    /\ IF AlreadyStarted
       THEN Finish(t, NewCall(t, "start_all"), "returned", "none", <<>>)
       ELSE /\ h' = [h EXCEPT ![t] = NewCall(t, "start_all")]
            /\ Goto(t, "sa_spawn")
    /\ UNCHANGED <<gsm, quota, retry, config, budget, sup, os, new_obj>>

\* What one _start_one(cfg) call can do.
StartOneOutcomes(n) ==
    IF Has(procs, n) /\ alive[Get(procs, n)]
    THEN {"running"}
    ELSE IF config[n] = "steady" THEN {"ok"}
    ELSE {"open_raise", "popen_raise"}
         \cup (IF config[n] = "bad_exe" THEN {} ELSE {"ok"})

\* `except Exception as e: errors.append(...)`: the for loop goes on with
\* the next descriptor whatever _start_one(cfg) did.
AfterStartOneAborting(n, r) ==
    IF r \in {"open_raise", "popen_raise"} THEN NumConfigs + 1 ELSE n + 1

AfterStartOne(n, r) == n + 1

\* One iteration of `for cfg in self.configs: try: self._start_one(cfg)`,
\* up to and including subprocess.Popen.
start_one(t) ==
    /\ pc[t] = "sa_spawn"
    /\ idx[t] <= NumConfigs
    /\ LET n == idx[t]
           o == nobjs + 1
       IN \E r \in StartOneOutcomes(n) :
          CASE r = "running" ->
                 \* already running: return
                 /\ idx' = [idx EXCEPT ![t] = AfterStartOne(n, r)]
                 /\ UNCHANGED <<os, errors, new_obj, pc, h>>
            [] r = "open_raise" ->
                 \* log_path.open("ab") raised: nothing was opened
                 /\ errors' = [errors EXCEPT ![t] =
                                  Append(@, Err(n, "failed to start", r))]
                 /\ idx' = [idx EXCEPT ![t] = AfterStartOne(n, r)]
                 /\ h' = [h EXCEPT ![t].attempted = @ \cup {n},
                                   ![t].spawnFailed = @ \cup {<<n, r>>}]
                 /\ UNCHANGED <<os, new_obj, pc>>
            [] r = "popen_raise" ->
                 \* the log file is open, Popen raised: log_file is dropped
                 /\ nobjs' = o
                 /\ isopen' = [isopen EXCEPT ![o] = TRUE]
                 /\ errors' = [errors EXCEPT ![t] =
                                  Append(@, Err(n, "failed to start", r))]
                 /\ idx' = [idx EXCEPT ![t] = AfterStartOne(n, r)]
                 /\ h' = [h EXCEPT ![t].attempted = @ \cup {n},
                                   ![t].spawnFailed = @ \cup {<<n, r>>},
                                   ![t].callObjs = @ \cup {o}]
                 /\ UNCHANGED <<alive, new_obj, pc>>
            [] r = "ok" ->
                 /\ nobjs' = o
                 /\ isopen' = [isopen EXCEPT ![o] = TRUE]
                 /\ alive' = [alive EXCEPT ![o] = TRUE]
                 /\ new_obj' = [new_obj EXCEPT ![t] = o]
                 /\ h' = [h EXCEPT ![t].attempted = @ \cup {n},
                                   ![t].spawned = @ \cup {n},
                                   ![t].callObjs = @ \cup {o},
                                   ![t].callProcs = @ \cup {o}]
                 /\ Goto(t, "sa_track")
                 /\ UNCHANGED <<errors, idx>>
    /\ UNCHANGED <<gsm, quota, retry, config, budget, sup, ret, items, elapsed, deadline,
                   tried_root>>

TrackLogForgotten(t) == log_files

\* self._log_files[cfg.name] = log_file
TrackLog(t) == Put(log_files, idx[t], new_obj[t])

\* self.procs[cfg.name] = proc; self._log_files[cfg.name] = log_file
start_one_track(t) ==
    /\ pc[t] = "sa_track"
    /\ procs' = Put(procs, idx[t], new_obj[t])
    /\ log_files' = TrackLog(t)
    /\ new_obj' = [new_obj EXCEPT ![t] = 0]
    /\ idx' = [idx EXCEPT ![t] = @ + 1]
    /\ Goto(t, "sa_spawn")
    /\ UNCHANGED <<gsm, quota, retry, config, budget, started, os, ret, errors, items, elapsed, deadline,
                   tried_root, h>>

\* After the spawn loop: `if errors: self.stop_all(); raise`, else the
\* health loop begins.
SpawnErrorsIgnored(t) == FALSE

\* `if errors:` after the spawn loop
SpawnErrors(t) == errors[t] # <<>>

SpawnLoopLeftEarly(t) == idx[t] > 1

\* `for cfg in self.configs:` of the spawn loop has gone through every
\* descriptor.
SpawnLoopDone(t) == idx[t] > NumConfigs

spawn_done(t) ==
    /\ pc[t] = "sa_spawn"
    /\ SpawnLoopDone(t)
    /\ IF SpawnErrors(t)
       THEN /\ Goto(t, "st_entry")
            /\ ret' = [ret EXCEPT ![t] = "start_all"]
            /\ UNCHANGED idx
       ELSE /\ Goto(t, "sa_health")
            /\ idx' = [idx EXCEPT ![t] = 1]
            /\ UNCHANGED ret
    /\ UNCHANGED <<gsm, quota, retry, config, budget, sup, os, errors, items, elapsed, deadline,
                   tried_root, new_obj, h>>

\* ------------------------------------------------------------ _wait_healthy

DeadlineDoubled(n) == 2 * StartTimeout

\* deadline = time.time() + cfg.start_timeout, counted from the start of
\* the polling of service n.
Deadline(n) == StartTimeout

\* `ok, msg = self._wait_healthy(cfg)` begins: deadline, tried_root = False.
wait_healthy(t) ==
    /\ pc[t] = "sa_health"
    /\ idx[t] <= NumConfigs
    /\ deadline' = [deadline EXCEPT ![t] = Deadline(idx[t])]
    /\ elapsed' = [elapsed EXCEPT ![t] = 0]
    /\ tried_root' = [tried_root EXCEPT ![t] = FALSE]
    /\ h' = [h EXCEPT ![t].checked = @ \cup {idx[t]},
                      ![t].rootAnswered = {},
                      ![t].rootAsked = 0]
    /\ Goto(t, "wh_check")
    /\ UNCHANGED <<gsm, quota, retry, config, budget, sup, os, ret, idx, errors, items, new_obj>>

\* _wait_healthy returns (ok, msg) to the health loop of start_all:
\* `if not ok: errors.append(f"{cfg.name} unhealthy: {msg}")`.
AfterHealthCheckAborting(n, ok) == IF ok THEN n + 1 ELSE NumConfigs + 1

\* `for cfg in self.configs:` of the health loop goes on with the next
\* descriptor whatever _wait_healthy(cfg) returned.
AfterHealthCheck(n, ok) == n + 1

HealthResult(t, hh, ok, why) ==
    /\ errors' = [errors EXCEPT ![t] =
                     IF ok THEN @ ELSE Append(@, Err(idx[t], "unhealthy", why))]
    /\ h' = [h EXCEPT ![t] =
                 [hh EXCEPT !.healthy = IF ok THEN @ \cup {idx[t]} ELSE @,
                            !.unhealthy =
                                IF ok THEN @ ELSE @ \cup {<<idx[t], why>>},
                            !.sinceGet = "none", !.polled = "none"]]
    /\ idx' = [idx EXCEPT ![t] = AfterHealthCheck(idx[t], ok)]
    /\ Goto(t, "sa_health")

\* What the head of one loop iteration can do: the `while time.time() <
\* deadline` test, then procs.get(name) and proc.poll().
\* The process of the service that t is checking has exited, or the
\* service is not in the process map.
ProcGone(t) == ~Has(procs, idx[t]) \/ ~alive[Get(procs, idx[t])]

CheckOutcomesHasty(t) ==
    IF elapsed[t] + PollSleep >= deadline[t] THEN {"timeout"}
    ELSE IF ~Has(procs, idx[t]) THEN {"exited"}
    ELSE IF alive[Get(procs, idx[t])] THEN {"running"} ELSE {"exited"}

CheckOutcomesBlind(t) ==
    IF elapsed[t] >= deadline[t] THEN {"timeout"}
    ELSE IF ~Has(procs, idx[t]) THEN {"exited"} ELSE {"running"}

CheckOutcomesNoPoll(t) ==
    IF elapsed[t] >= deadline[t] THEN {"timeout"} ELSE {"running"}

\* The head of one iteration: `while time.time() < deadline:`, then
\* `proc = self.procs.get(cfg.name)` and `proc.poll()`.
CheckOutcomes(t) ==
    IF elapsed[t] >= deadline[t] THEN {"timeout"}
    ELSE IF ~Has(procs, idx[t]) THEN {"exited"}
    ELSE IF alive[Get(procs, idx[t])] THEN {"running"} ELSE {"exited"}

wait_healthy_check(t) ==
    /\ pc[t] = "wh_check"
    /\ \E r \in CheckOutcomes(t) :
          IF r = "running"
          THEN /\ Goto(t, "wh_get")
               /\ h' = [h EXCEPT ![t].polled =
                            IF ProcGone(t) THEN "gone" ELSE "running"]
               /\ UNCHANGED <<errors, idx>>
          ELSE HealthResult(t, h[t], FALSE, r)
    /\ UNCHANGED <<gsm, quota, retry, config, budget, sup, os, ret, items, elapsed, deadline, tried_root,
                   new_obj>>

\* What requests.get(health_url, timeout=1) can give, with the ticks it
\* takes: an exception at once (refused) or after the timeout, or a status.
GetOutcomes(n) ==
    IF config[n] = "steady"
    THEN {<<"200", 0>>}
    ELSE {<<"refused", 0>>, <<"timeout", ReqTimeout>>}
         \cup (IF config[n] = "no_port" THEN {}
               ELSE {"200", "404", "500"} \X (0..ReqTimeout))

FallbackAlways(t) == TRUE

\* `and not tried_root` of `if resp.status_code == 404 and not tried_root:`
FallbackOnce(t) == ~tried_root[t]

\* How the health request ended, as the loop sees it: an exception, a 404
\* or another status.
Answer(status) ==
    IF status \in {"refused", "timeout"} THEN "exc"
    ELSE IF status = "404" THEN "404" ELSE "other"

wait_healthy_get(t) ==
    /\ pc[t] = "wh_get"
    /\ \E r \in GetOutcomes(idx[t]) :
          /\ elapsed' = [elapsed EXCEPT ![t] = @ + r[2]]
          /\ CASE r[1] \in {"refused", "timeout"} ->
                    \* except Exception: time.sleep(0.5); continue
                    /\ Goto(t, "wh_sleep")
                    /\ h' = [h EXCEPT ![t].http = TRUE,
                                      ![t].sinceGet = Answer(r[1])]
                    /\ UNCHANGED <<errors, idx, tried_root>>
               [] r[1] = "200" ->
                    /\ HealthResult(t, [h[t] EXCEPT !.http = TRUE], TRUE, "ok")
                    /\ UNCHANGED tried_root
               [] r[1] = "404" /\ FallbackOnce(t) ->
                    /\ tried_root' = [tried_root EXCEPT ![t] = TRUE]
                    /\ Goto(t, "wh_root")
                    /\ h' = [h EXCEPT ![t].http = TRUE,
                                      ![t].sinceGet = Answer(r[1]),
                                      ![t].rootAsked = @ + 1]
                    /\ UNCHANGED <<errors, idx>>
               [] OTHER ->
                    \* any other status: next iteration, without a sleep
                    /\ Goto(t, "wh_check")
                    /\ h' = [h EXCEPT ![t].http = TRUE,
                                      ![t].sinceGet = Answer(r[1]),
                                      ![t].polled = "none"]
                    /\ UNCHANGED <<errors, idx, tried_root>>
    /\ UNCHANGED <<gsm, quota, retry, config, budget, sup, os, ret, items, deadline, new_obj>>

\* What requests.get(root_url, timeout=1) can give.
RootOutcomes(n) ==
    IF config[n] = "steady"
    THEN {<<"refused", 0>>, <<"200", 0>>}
    ELSE {<<"refused", 0>>, <<"timeout", ReqTimeout>>}
         \cup (IF config[n] = "no_port" THEN {}
               ELSE {"200", "404", "500"} \X (0..ReqTimeout))

\* `if root_resp.status_code in (200, 404):`
RootListening(status) == status \in {"200", "404"}

wait_healthy_root(t) ==
    /\ pc[t] = "wh_root"
    /\ \E r \in RootOutcomes(idx[t]) :
          /\ elapsed' = [elapsed EXCEPT ![t] = @ + r[2]]
          /\ LET hh == [h[t] EXCEPT !.rootAnswered =
                             IF r[1] \in {"refused", "timeout"}
                             THEN @ ELSE @ \cup {idx[t]},
                                     !.sinceGet = "root"]
             IN IF RootListening(r[1])
                THEN HealthResult(t, hh, TRUE, "ok (no /health, but port open)")
                ELSE \* another status, or `except Exception: pass`
                     /\ Goto(t, "wh_check")
                     /\ h' = [h EXCEPT ![t] = [hh EXCEPT !.polled = "none"]]
                     /\ UNCHANGED <<errors, idx>>
    /\ UNCHANGED <<gsm, quota, retry, config, budget, sup, os, ret, items, deadline, tried_root, new_obj>>

AfterSleepClockStuck(e) == e

\* The clock after time.sleep(0.5).
AfterSleep(e) == e + PollSleep

\* time.sleep(0.5); continue
wait_healthy_sleep(t) ==
    /\ pc[t] = "wh_sleep"
    /\ elapsed' = [elapsed EXCEPT ![t] = AfterSleep(@)]
    /\ h' = [h EXCEPT ![t].sinceGet = "slept", ![t].polled = "none"]
    /\ Goto(t, "wh_check")
    /\ UNCHANGED <<gsm, quota, retry, config, budget, sup, os, ret, idx, errors, items, deadline,
                   tried_root, new_obj>>

\* After the health loop: `if errors: self.stop_all(); raise`, else
\* `self.started = True`.
HealthErrorsIgnored(t) == FALSE

\* `if errors:` after the health loop
HealthErrors(t) == errors[t] # <<>>

health_done(t) ==
    /\ pc[t] = "sa_health"
    /\ idx[t] > NumConfigs
    /\ IF HealthErrors(t)
       THEN /\ Goto(t, "st_entry")
            /\ ret' = [ret EXCEPT ![t] = "start_all"]
            /\ h' = [h EXCEPT ![t].rootAnswered = {}]
            /\ UNCHANGED started
       ELSE /\ started' = TRUE
            /\ Finish(t, [h[t] EXCEPT !.rootAnswered = {}],
                      "returned", "none", <<>>)
            /\ UNCHANGED ret
    /\ UNCHANGED <<gsm, quota, retry, config, budget, procs, log_files, os, idx, errors, items, elapsed,
                   deadline, tried_root, new_obj>>

\* ------------------------------------------------------------ stop_all

\* stop_all() called by the application.
stop_all(t) ==
    /\ pc[t] = "idle"
    /\ h' = [h EXCEPT ![t] = NewCall(t, "stop_all")]
    /\ FreshLocals(t)
    /\ Goto(t, "st_entry")
    /\ UNCHANGED <<gsm, quota, retry, config, budget, sup, os, new_obj>>

\* stop_all returns to its caller: to the application, or to start_all,
\* which then does `raise RuntimeError("; ".join(errors))`.
StopReturns(t, hh) ==
    IF ret[t] = "top"
    THEN Finish(t, hh, "returned", "none", <<>>)
    ELSE Finish(t, hh, "raised", "RuntimeError", errors[t])

\* `if not self.procs: return`, else Phase 1 begins over
\* list(self.procs.items()).
stop_entry(t) ==
    /\ pc[t] = "st_entry"
    /\ LET hh == [h[t] EXCEPT !.sProcs = Values(procs),
                              !.sLogs = Values(log_files),
                              !.waitedOut = {}]
       IN IF procs = <<>>
          THEN /\ StopReturns(t, hh)
               /\ UNCHANGED <<items, idx>>
          ELSE /\ h' = [h EXCEPT ![t] = hh]
               /\ items' = [items EXCEPT ![t] = procs]
               /\ idx' = [idx EXCEPT ![t] = 1]
               /\ Goto(t, "st_term")
    /\ UNCHANGED <<gsm, quota, retry, config, budget, sup, os, ret, errors, elapsed, deadline, tried_root,
                   new_obj>>

AfterStopStepAborting(t, r) ==
    IF Raised(r) THEN Len(items[t]) + 1 ELSE idx[t] + 1

\* The try/except of Phases 1, 3 and 4 lies inside the body of the for
\* loop: the loop goes on with the next item whatever the body raised.
AfterStopStep(t, r) == idx[t] + 1

StillRunningUnchecked(o) == TRUE

\* `if proc.poll() is None:` of Phase 1
StillRunning(o) == alive[o]

\* What one Phase 1 iteration can do with process o.
TermOutcomes(o) ==
    {"ok"} \cup (IF F THEN {"poll_raise"} ELSE {})
           \cup (IF F /\ alive[o] THEN {"terminate_raise"} ELSE {})

\* Phase 1, one iteration: `if proc.poll() is None: proc.terminate()`,
\* any exception printed and swallowed.
stop_terminate(t) ==
    /\ pc[t] = "st_term"
    /\ idx[t] <= Len(items[t])
    /\ LET o == items[t][idx[t]][2]
       IN \E r \in TermOutcomes(o) :
             /\ Spend(r)
             /\ h' = [h EXCEPT ![t].termTried = @ \cup {o},
                               ![t].terms =
                          IF r = "ok" /\ StillRunning(o) THEN @ \cup {o} ELSE @,
                               ![t].faults =
                          IF Raised(r) THEN @ \cup {<<"phase1", o>>} ELSE @]
             /\ idx' = [idx EXCEPT ![t] = AfterStopStep(t, r)]
    /\ UNCHANGED <<gsm, quota, retry, config, sup, os, pc, ret, errors, items, elapsed, deadline,
                   tried_root, new_obj>>

TermLoopLeftEarly(t) == idx[t] > 1

\* The for loop of Phase 1 has gone through list(self.procs.items()).
TermLoopDone(t) == idx[t] > Len(items[t])

WaitDeadlineSquared == StopWaitPerProc * Len(procs) * Len(procs)

\* 2 * len(self.procs), counted from the start of Phase 2
WaitDeadline == StopWaitPerProc * Len(procs)

\* Phase 2 begins: deadline = time.time() + (2 * len(self.procs)).
stop_wait_begin(t) ==
    /\ pc[t] = "st_term"
    /\ TermLoopDone(t)
    /\ deadline' = [deadline EXCEPT ![t] = WaitDeadline]
    /\ elapsed' = [elapsed EXCEPT ![t] = 0]
    /\ Goto(t, "st_wait")
    /\ UNCHANGED <<gsm, quota, retry, config, budget, sup, os, ret, idx, errors, items, tried_root,
                   new_obj, h>>

\* A blocking wait in place of the polling loop: nothing to do but wait
\* until every process has exited.
WaitOutcomesBlocking(t) ==
    IF \A o \in Values(procs) : ~alive[o] THEN {"all_stopped"} ELSE {}

\* What one Phase 2 iteration can do: the loop test, then
\* all(p.poll() is not None for p in self.procs.values()), then the sleep.
WaitOutcomes(t) ==
    IF elapsed[t] >= deadline[t] THEN {"deadline"}
    ELSE (IF \A o \in Values(procs) : ~alive[o] THEN {"all_stopped"}
          ELSE {"sleep"})
         \cup (IF F /\ procs # <<>> THEN {"poll_raise"} ELSE {})

\* Phase 2, one iteration; leaving the loop sets up Phase 3 over
\* list(self.procs.items()).  poll() is called outside any try here.
stop_wait(t) ==
    /\ pc[t] = "st_wait"
    /\ \E r \in WaitOutcomes(t) :
          /\ Spend(r)
          /\ CASE r = "sleep" ->
                 /\ elapsed' = [elapsed EXCEPT ![t] = @ + StopSleep]
                 /\ UNCHANGED <<pc, items, idx, h>>
            [] r \in {"deadline", "all_stopped"} ->
                 /\ items' = [items EXCEPT ![t] = procs]
                 /\ idx' = [idx EXCEPT ![t] = 1]
                 /\ h' = [h EXCEPT ![t].waitedOut =
                              IF r = "deadline"
                              THEN {o \in Values(procs) : alive[o]} ELSE {}]
                 /\ Goto(t, "st_kill")
                 /\ UNCHANGED elapsed
            [] r = "poll_raise" ->
                 /\ Finish(t, h[t], "raised", "stop_all", <<>>)
                 /\ UNCHANGED <<elapsed, items, idx>>
    /\ UNCHANGED <<gsm, quota, retry, config, sup, os, ret, errors, deadline, tried_root, new_obj>>

StragglerUnchecked(o) == TRUE

\* `if proc.poll() is None:` of Phase 3
Straggler(o) == alive[o]

\* What one Phase 3 iteration can do with process o.
KillOutcomes(o) ==
    {"ok"} \cup (IF F THEN {"poll_raise"} ELSE {})
           \cup (IF F /\ alive[o] THEN {"kill_raise", "wait_raise"} ELSE {})

AfterKillMissing(o, r) == alive

\* proc.kill(); proc.wait(timeout=1): the process is gone when both
\* returned.
AfterKill(o, r) == [alive EXCEPT ![o] = IF r = "ok" THEN FALSE ELSE @]

\* Phase 3, one iteration: `if proc.poll() is None: proc.kill();
\* proc.wait(timeout=1)`, any exception printed and swallowed.  A kill that
\* raised has not signalled the process; a wait that raised (TimeoutExpired)
\* has not seen it exit.
stop_kill(t) ==
    /\ pc[t] = "st_kill"
    /\ idx[t] <= Len(items[t])
    /\ LET o == items[t][idx[t]][2]
       IN \E r \in KillOutcomes(o) :
             /\ Spend(r)
             /\ alive' = AfterKill(o, r)
             /\ h' = [h EXCEPT ![t].killTried = @ \cup {o},
                               ![t].kills =
                          IF r \in {"ok", "wait_raise"} /\ Straggler(o)
                          THEN @ \cup {o} ELSE @,
                               ![t].faults =
                          IF Raised(r) THEN @ \cup {<<"phase3", o>>} ELSE @]
             /\ idx' = [idx EXCEPT ![t] = AfterStopStep(t, r)]
    /\ UNCHANGED <<gsm, quota, retry, config, sup, nobjs, isopen, pc, ret, errors, items, elapsed,
                   deadline, tried_root, new_obj>>

\* Phase 4 begins over list(self._log_files.items()).
stop_close_begin(t) ==
    /\ pc[t] = "st_kill"
    /\ idx[t] > Len(items[t])
    /\ items' = [items EXCEPT ![t] = log_files]
    /\ idx' = [idx EXCEPT ![t] = 1]
    /\ Goto(t, "st_close")
    /\ UNCHANGED <<gsm, quota, retry, config, budget, sup, os, ret, errors, elapsed, deadline, tried_root,
                   new_obj, h>>

AfterCloseSkipped(o, r) == isopen

\* log_file.close(): the file is closed when close returned.
AfterClose(o, r) ==
    [isopen EXCEPT ![o] = IF r = "close_raise_open" THEN @ ELSE FALSE]

\* What log_file.close() can do: a close that raised may or may not have
\* released the descriptor.
CloseOutcomes ==
    {"ok"} \cup (IF F THEN {"close_raise_open", "close_raise_closed"} ELSE {})

\* Phase 4, one iteration: `try: log_file.close() except Exception: pass`.
stop_close(t) ==
    /\ pc[t] = "st_close"
    /\ idx[t] <= Len(items[t])
    /\ LET o == items[t][idx[t]][2]
       IN \E r \in CloseOutcomes :
             /\ Spend(r)
             /\ isopen' = AfterClose(o, r)
             /\ h' = [h EXCEPT ![t].closes = @ \cup {o},
                               ![t].faults =
                          IF Raised(r) THEN @ \cup {<<"phase4", o>>} ELSE @]
             /\ idx' = [idx EXCEPT ![t] = AfterStopStep(t, r)]
    /\ UNCHANGED <<gsm, quota, retry, config, sup, nobjs, alive, pc, ret, errors, items, elapsed,
                   deadline, tried_root, new_obj>>

\* self._log_files.clear(); self.procs.clear(); self.started = False
StartedKept == started

\* self.started = False
StartedAfterStop == FALSE

ProcsKept == procs

\* self.procs.clear()
ProcsAfterStop == <<>>

stop_clear(t) ==
    /\ pc[t] = "st_close"
    /\ idx[t] > Len(items[t])
    /\ log_files' = <<>>
    /\ procs' = ProcsAfterStop
    /\ started' = StartedAfterStop
    /\ StopReturns(t, h[t])
    /\ UNCHANGED <<gsm, quota, retry, config, budget, os, ret, idx, errors, items, elapsed, deadline,
                   tried_root, new_obj>>

\* ------------------------------------------------------------ environment

\* A child process exits on its own, or in answer to a terminate signal.
proc_exits ==
    /\ \E o \in Objs :
          /\ alive[o]
          /\ alive' = [alive EXCEPT ![o] = FALSE]
    /\ UNCHANGED <<gsm, quota, retry, config, budget, sup, nobjs, isopen, pc, ret, idx, errors, items,
                   elapsed, deadline, tried_root, new_obj, h>>

\* The file object that _start_one dropped when Popen raised (or that a
\* later assignment to self._log_files[name] replaced) is referenced by
\* nothing; the runtime may close it when it finalizes the object, at a
\* time the code does not control.
finalize ==
    /\ \E o \in Objs :
          /\ isopen[o]
          /\ o \notin Values(log_files)
          /\ \A t \in Thread : new_obj[t] # o
          /\ isopen' = [isopen EXCEPT ![o] = FALSE]
    /\ UNCHANGED <<gsm, quota, retry, config, budget, sup, nobjs, alive, pc, ret, idx, errors, items,
                   elapsed, deadline, tried_root, new_obj, h>>

\* ------------------------------------------------------------ specifications

\* The application calls start_all or stop_all.
Call(t) == start_all(t) \/ stop_all(t)

\* One step of a call in progress.
Advance(t) ==
    \/ start_one(t)
    \/ start_one_track(t)
    \/ spawn_done(t)
    \/ wait_healthy(t)
    \/ wait_healthy_check(t)
    \/ wait_healthy_get(t)
    \/ wait_healthy_root(t)
    \/ wait_healthy_sleep(t)
    \/ health_done(t)
    \/ stop_entry(t)
    \/ stop_terminate(t)
    \/ stop_wait_begin(t)
    \/ stop_wait(t)
    \/ stop_kill(t)
    \/ stop_close_begin(t)
    \/ stop_close(t)
    \/ stop_clear(t)

Environment == proc_exits \/ finalize

\* One caller (the supervisor is used from a single thread); the calls
\* of stop_all on live handles (poll, terminate, kill, wait, close) succeed.
Next == Call(1) \/ Advance(1) \/ Environment

Spec == Init /\ [][Next]_vars

\* Every service is of kind good: whatever a service of another kind
\* does, a good one can do too.
AllGood == config = [n \in Names |-> "good"]

InitGood == Init /\ AllGood

\* Two callers: start_all and stop_all are called from two threads with
\* nothing to serialize them (the class holds no lock).  The services are
\* steady and their processes run until they are killed.
\* Each caller makes one call.
FirstCall(t) == h[t].op = "none" /\ Call(t)

\* One step of a call in progress when the services are steady: no health
\* request raises and none is answered 404, so there is no sleep and the
\* root path is never asked.
AdvanceSteady(t) ==
    \/ start_one(t)
    \/ start_one_track(t)
    \/ spawn_done(t)
    \/ wait_healthy(t)
    \/ wait_healthy_check(t)
    \/ wait_healthy_get(t)
    \/ health_done(t)
    \/ stop_entry(t)
    \/ stop_terminate(t)
    \/ stop_wait_begin(t)
    \/ stop_wait(t)
    \/ stop_kill(t)
    \/ stop_close_begin(t)
    \/ stop_close(t)
    \/ stop_clear(t)

NextConcurrent ==
    \/ FirstCall(1) \/ FirstCall(2)
    \/ AdvanceSteady(1) \/ AdvanceSteady(2)

\* The supervisor is constructed and not used.
Quiet ==
    /\ config = [n \in Names |-> "steady"]
    /\ Fresh
    /\ budget = 0

InitConcurrent ==
    Quiet /\ ManagerConstructed /\ QuotaUnused /\ RetryUnused

SpecConcurrent == InitConcurrent /\ [][NextConcurrent]_vars

\* A step of a call during which time passes.
ClockAdvances(t) == Advance(t) /\ elapsed'[t] > elapsed[t]

\* A call in progress goes on: the caller's thread keeps running.  Time
\* passes: a loop whose requests can take time does not go round for ever
\* with requests that take none.
FairSpec ==
    /\ InitGood
    /\ [][Next]_vars
    /\ WF_vars(Advance(1))
    /\ SF_vars(ClockAdvances(1))

\* One caller; in stop_all up to MaxFaults calls of poll, terminate, kill,
\* wait and close raise.
InitFaults ==
    /\ Constructed /\ AllGood /\ budget = MaxFaults
    /\ ManagerConstructed /\ QuotaUnused /\ RetryUnused

SpecFaults == InitFaults /\ [][Next]_vars

\* ------------------------------------------------------------ GenerationStateManager

\* The method thread t is in.
Top(t) == frames[t][Len(frames[t])]

\* A caller enters a method of the manager; its first statement is
\* `with self._lock:`.
ManagerCall(t, op, s) ==
    /\ gpc[t] = "idle"
    /\ gpc' = [gpc EXCEPT ![t] = "lock"]
    /\ frames' = [frames EXCEPT ![t] = <<op>>]
    /\ gop' = [gop EXCEPT ![t] =
                  [op |-> op, sid |-> s, existed |-> FALSE, out |-> "running"]]
    /\ UNCHANGED <<lock, sessions, mcp, quota, retry>>

create_session(t) ==
    \E s \in SIDs : ~sessions[s].exists /\ ManagerCall(t, "create_session", s)

get_session(t) == \E s \in SIDs : ManagerCall(t, "get_session", s)

update_status(t) == \E s \in SIDs : ManagerCall(t, "update_status", s)

add_log(t) ==
    \E s \in SIDs :
        Len(sessions[s].logs) < MaxLogs /\ ManagerCall(t, "add_log", s)

set_error(t) ==
    \E s \in SIDs :
        Len(sessions[s].logs) < MaxLogs /\ ManagerCall(t, "set_error", s)

complete_session(t) ==
    \E s \in SIDs :
        Len(sessions[s].logs) < MaxLogs /\ ManagerCall(t, "complete_session", s)

\* threading.Lock().acquire(): blocks until the lock is free, whoever
\* holds it.
LockFree(t) == lock = 0

\* `with self._lock:` is entered.
with_lock(t) ==
    /\ gpc[t] = "lock"
    /\ LockFree(t)
    /\ lock' = t
    /\ gpc' = [gpc EXCEPT ![t] = "body"]
    /\ UNCHANGED <<sessions, frames, gop, mcp, quota, retry>>

\* The with block is left and the method returns to the application,
\* through the with block of the calling method if there is one.
Return(t, ss, existed) ==
    /\ lock' = 0
    /\ sessions' = ss
    /\ frames' = [frames EXCEPT ![t] = <<>>]
    /\ gpc' = [gpc EXCEPT ![t] = "idle"]
    /\ gop' = [gop EXCEPT ![t].existed = existed, ![t].out = "returned"]
    /\ UNCHANGED <<mcp, quota, retry>>

InBody(t, op) == gpc[t] = "body" /\ Top(t) = op

\* self._sessions[session_id] = GenerationSession(...)
create_session_body(t) ==
    /\ InBody(t, "create_session")
    /\ Return(t, [sessions EXCEPT ![gop[t].sid] =
                     [exists |-> TRUE, status |-> "initializing",
                      progress |-> 0, logs |-> <<>>, error |-> FALSE]],
              FALSE)

\* return self._sessions.get(session_id)
get_session_body(t) ==
    /\ InBody(t, "get_session")
    /\ Return(t, sessions, sessions[gop[t].sid].exists)

\* session.status = status; session.progress = progress
update_status_body(t) ==
    /\ InBody(t, "update_status")
    /\ LET s == gop[t].sid
       IN \E pr \in {10, 90} :
             Return(t, IF sessions[s].exists
                       THEN [sessions EXCEPT ![s].status = "running",
                                             ![s].progress = pr]
                       ELSE sessions,
                    sessions[s].exists)

\* The type of the entry add_log appends: INFO from the application,
\* ERROR from set_error, SUCCESS from complete_session.
LogType(t) ==
    IF Len(frames[t]) = 1 THEN "INFO"
    ELSE IF frames[t][1] = "set_error" THEN "ERROR" ELSE "SUCCESS"

\* session.logs.append({...})
add_log_body(t) ==
    /\ InBody(t, "add_log")
    /\ LET s == gop[t].sid
       IN Return(t, IF sessions[s].exists
                    THEN [sessions EXCEPT ![s].logs = Append(@, LogType(t))]
                    ELSE sessions,
                 sessions[s].exists)

\* The body of set_error or complete_session has updated the session and
\* calls self.add_log(...) with the lock held.
CallAddLog(t, ss) ==
    /\ sessions' = ss
    /\ frames' = [frames EXCEPT ![t] = Append(@, "add_log")]
    /\ gpc' = [gpc EXCEPT ![t] = "lock"]
    /\ gop' = [gop EXCEPT ![t].existed = TRUE]
    /\ UNCHANGED <<lock, mcp, quota, retry>>

\* session.status = "error"; session.error = error; self.add_log(...)
set_error_body(t) ==
    /\ InBody(t, "set_error")
    /\ LET s == gop[t].sid
       IN IF sessions[s].exists
          THEN CallAddLog(t, [sessions EXCEPT ![s].status = "error",
                                              ![s].error = TRUE])
          ELSE Return(t, sessions, FALSE)

\* session.status = "completed"; session.progress = 100;
\* session.files.update(final_files); self.add_log(...)
complete_session_body(t) ==
    /\ InBody(t, "complete_session")
    /\ LET s == gop[t].sid
       IN IF sessions[s].exists
          THEN CallAddLog(t, [sessions EXCEPT ![s].status = "completed",
                                              ![s].progress = 100])
          ELSE Return(t, sessions, FALSE)

\* The generation worker and the polling page use the manager.
NextManager ==
    \E t \in Thread :
        \/ create_session(t)
        \/ get_session(t)
        \/ update_status(t)
        \/ add_log(t)
        \/ set_error(t)
        \/ complete_session(t)
        \/ with_lock(t)
        \/ create_session_body(t)
        \/ get_session_body(t)
        \/ update_status_body(t)
        \/ add_log_body(t)
        \/ set_error_body(t)
        \/ complete_session_body(t)

InitManager == Quiet /\ ManagerConstructed /\ QuotaUnused /\ RetryUnused

SpecManager == InitManager /\ [][NextManager]_vars

\* ------------------------------------------------------------ quota tracker

\* _read_quota_file(): the record in the file; today's empty record when
\* there is no file or json.load raises.
ReadQuotaFile(f) ==
    IF f \in {NoFile, Corrupt} THEN [date |-> today, used |-> 0] ELSE f

\* The file after reset_if_new_day(): a record of another day is replaced
\* by today's empty record.
ResetIfNewDay(f) ==
    IF ReadQuotaFile(f).date # today THEN [date |-> today, used |-> 0] ELSE f

\* can_reserve_requests(requests_needed, daily_quota)
can_reserve_requests ==
    \E n \in 1..MaxUsed : \E q \in 1..MaxUsed :
        LET f == ResetIfNewDay(quota_file)
            used == ReadQuotaFile(f).used
        IN /\ quota_file' = f
           /\ qlast' = [op |-> "can_reserve_requests", before |-> quota_file,
                        result |-> (used + n <= q)]
           /\ UNCHANGED <<today, mcp, gsm, retry>>

\* increment_usage(n): taken while the counter stays within MaxUsed.
increment_usage ==
    \E n \in 1..MaxUsed :
        LET f == ResetIfNewDay(quota_file)
            data == ReadQuotaFile(f)
        IN /\ data.used + n <= MaxUsed
           /\ quota_file' = [data EXCEPT !.used = @ + n]
           /\ qlast' = [op |-> "increment_usage", before |-> quota_file,
                        result |-> TRUE]
           /\ UNCHANGED <<today, mcp, gsm, retry>>

\* Midnight (UTC) passes.
day_passes ==
    /\ today < MaxDay
    /\ today' = today + 1
    /\ UNCHANGED <<quota_file, qlast, mcp, gsm, retry>>

NextQuota == can_reserve_requests \/ increment_usage \/ day_passes

\* The tracker starts with whatever an earlier run left in the file.
InitQuota ==
    /\ Quiet /\ ManagerConstructed /\ RetryUnused
    /\ today \in Days
    /\ quota_file \in {f \in QuotaFiles : f.date <= today}
    /\ qlast = NoQuotaCall

SpecQuota == InitQuota /\ [][NextQuota]_vars

\* ------------------------------------------------------------ _retry_request

\* The client wrappers and the max_retries each passes.
Wrappers ==
    {"create_file", "validate_markdown", "zip_files",
     "create_zip_from_memory", "search", "format_markdown"}

WrapperRetries(w) == IF w = "format_markdown" THEN 2 ELSE 3

\* except (Timeout, ConnectionError, RequestException): what is retried.
Retried == {"Timeout", "ConnectionError", "RequestException"}

\* What func(timeout=timeout) can do: return a value, raise one of the
\* exceptions that are retried, or raise another one (resp.json() or
\* data.get on a body that is not what was expected).
FuncOutcomes == {"value"} \cup Retried \cup {"ValueError"}

CallOf(r) == [ev |-> "call", res |-> r, dur |-> 0]

SleepOf(d) == [ev |-> "sleep", res |-> "none", dur |-> d]

\* A wrapper, or the application itself, calls
\* _retry_request(func, max_retries, timeout).
retry_request ==
    /\ rpc = "idle"
    /\ \/ \E w \in Wrappers :
             caller' = w /\ max_retries' = WrapperRetries(w)
       \/ \E m \in 0..MaxRetries :
             caller' = "none" /\ max_retries' = m
    /\ attempt' = 0
    /\ calls' = <<>>
    /\ rout' = [out |-> "running", val |-> "none"]
    /\ rpc' = "attempt"
    /\ UNCHANGED <<mcp, gsm, quota>>

\* The call ends with `return v`.
Returns(v) ==
    /\ rout' = [out |-> "returned", val |-> v]
    /\ rpc' = "idle"

\* An exception e leaves _retry_request: the application gets it, a
\* wrapper turns it into the value of its `except Exception` branch.
Raises(e) ==
    /\ rout' = IF caller = "none"
               THEN [out |-> "raised", val |-> e]
               ELSE [out |-> "returned", val |-> "failure"]
    /\ rpc' = "idle"

SleepsAlways(a, m) == TRUE

\* `if attempt < max_retries - 1:` the failure is followed by a sleep and
\* another attempt.
SleepsAgain(a, m) == a < m - 1

\* One pass of `for attempt in range(max_retries): try: return
\* func(timeout=timeout)`, up to the sleep or the raise.
retry_attempt ==
    /\ rpc = "attempt"
    /\ attempt < max_retries
    /\ \E r \in FuncOutcomes :
          /\ calls' = Append(calls, CallOf(r))
          /\ IF r = "value" THEN Returns("value")
             ELSE IF r \notin Retried THEN Raises(r)
             ELSE IF SleepsAgain(attempt, max_retries)
                  THEN rpc' = "backoff" /\ UNCHANGED rout
                  ELSE Raises(r)
    /\ UNCHANGED <<caller, max_retries, attempt, mcp, gsm, quota>>

\* backoff = 2 ** attempt
Backoff(a) == 2 ^ a

\* time.sleep(backoff), then the next pass of the loop.
retry_backoff ==
    /\ rpc = "backoff"
    /\ calls' = Append(calls, SleepOf(Backoff(attempt)))
    /\ attempt' = attempt + 1
    /\ rpc' = "attempt"
    /\ UNCHANGED <<caller, max_retries, rout, mcp, gsm, quota>>

\* range(max_retries) is exhausted:
\* return {"success": False, "message": "Max retries exceeded"}
retry_exhausted ==
    /\ rpc = "attempt"
    /\ attempt >= max_retries
    /\ Returns("max_retries_exceeded")
    /\ UNCHANGED <<caller, max_retries, attempt, calls, mcp, gsm, quota>>

NextRetry ==
    retry_request \/ retry_attempt \/ retry_backoff \/ retry_exhausted

InitRetry == Quiet /\ ManagerConstructed /\ QuotaUnused /\ RetryUnused

SpecRetry == InitRetry /\ [][NextRetry]_vars

\* ------------------------------------------------------------ claims

\* Thread t is between calls and its last call was op, which ended out.
Ended(t, op, out) ==
    pc[t] = "idle" /\ h[t].op = op /\ h[t].out = out

\* The entries of the error the last call of t raised.
ErrorsRaised(t) == {h[t].err[k] : k \in DOMAIN h[t].err}

InStopAll(t) == pc[t] \in {"st_entry", "st_term", "st_wait", "st_kill", "st_close"}

\* C1: once start_all has raised, no child process spawned during that
\* call is still running.
C1_NoProcessLeft ==
    \A t \in Thread :
        Ended(t, "start_all", "raised") =>
            \A o \in h[t].callProcs : ~alive[o]

\* C1 witness: start_all raised after it had spawned a process that did
\* not exit by itself and had to be force-killed.
C1_Witness ==
    \E t \in Thread :
        /\ Ended(t, "start_all", "raised")
        /\ h[t].callProcs \cap h[t].kills # {}

\* C2: once start_all has raised, no log file opened during that call is
\* still open, the one opened for a service whose Popen raised included.
C2_NoLogLeftOpen ==
    \A t \in Thread :
        Ended(t, "start_all", "raised") =>
            \A o \in h[t].callObjs : ~isopen[o]

\* C3 as stated: after stop_all returns, whatever terminate, kill, wait or
\* close raised, no process tracked at its start is running and no log
\* file tracked at its start is open.
C3_NothingLeftWhateverFailed ==
    \A t \in Thread :
        Ended(t, "stop_all", "returned") =>
            /\ \A o \in h[t].sProcs : ~alive[o]
            /\ \A o \in h[t].sLogs : ~isopen[o]

\* C3 amended: after stop_all returns, a process tracked at its start is
\* still running only if the poll, kill or wait issued for it in Phase 3
\* raised, and a log file tracked at its start is still open only if its
\* close raised; what raised in Phase 1 leaves nothing behind.
C3_LeftOnlyWhereKillOrCloseRaised ==
    \A t \in Thread :
        Ended(t, "stop_all", "returned") =>
            /\ \A o \in h[t].sProcs : alive[o] => <<"phase3", o>> \in h[t].faults
            /\ \A o \in h[t].sLogs : isopen[o] => <<"phase4", o>> \in h[t].faults

\* C3 witness: stop_all returned after terminate raised for a running
\* process, and that process is gone.
C3_Witness ==
    \E t \in Thread :
        /\ Ended(t, "stop_all", "returned")
        /\ \E o \in h[t].sProcs :
              /\ <<"phase1", o>> \in h[t].faults
              /\ o \in h[t].kills
              /\ ~alive[o]

\* C4: stop_all never propagates an error, whatever poll, terminate, kill,
\* wait or close raised: no call ends with an exception that left stop_all.
C4_StopAllNeverRaises ==
    \A t \in Thread :
        pc[t] = "idle" => h[t].errType # "stop_all"

\* C5: a stop_all that follows a returned stop_all, or that is the first
\* call on the supervisor, returns, signals and closes nothing and leaves
\* the freshly constructed state; the start_all after a returned stop_all
\* attempts a spawn for every descriptor.
C5_StopAllIdempotent ==
    \A t \in Thread :
        /\ ( /\ pc[t] = "idle"
             /\ h[t].op = "stop_all"
             /\ \/ h[t].prevOp = "none"
                \/ h[t].prevOp = "stop_all" /\ h[t].prevOut = "returned" )
           => /\ h[t].out = "returned"
              /\ h[t].terms = {} /\ h[t].kills = {} /\ h[t].closes = {}
              /\ procs = <<>> /\ log_files = <<>> /\ ~started
        /\ ( /\ pc[t] = "idle"
             /\ h[t].op = "start_all"
             /\ h[t].prevOp = "stop_all" /\ h[t].prevOut = "returned" )
           => h[t].attempted = Names

\* C5 witness: a second stop_all in a row has ended, after services had
\* been spawned.
C5_Witness ==
    \E t \in Thread :
        /\ Ended(t, "stop_all", "returned")
        /\ h[t].prevOp = "stop_all" /\ h[t].prevOut = "returned"
        /\ nobjs > 0

\* C6: stop_all always comes to an end, and a process that was still
\* running when the bounded wait of Phase 2 ran out has exited by then.
C6_StopAllTerminates ==
    /\ \A t \in Thread : InStopAll(t) ~> ~InStopAll(t)
    /\ [](\A t \in Thread :
             pc[t] = "idle" => \A o \in h[t].waitedOut : ~alive[o])

\* C6 witness: stop_all returned after the bounded wait ran out on a
\* process that ignored the terminate signal.
C6_Witness ==
    \E t \in Thread :
        /\ Ended(t, "stop_all", "returned")
        /\ h[t].waitedOut \cap h[t].terms # {}

\* C7: a start_all called with started true returns without raising and
\* spawns nothing, opens nothing, requests nothing and changes neither map
\* nor the flag.
C7_StartAllNoopWhenStarted ==
    \A t \in Thread :
        (h[t].op = "start_all" /\ h[t].eStarted) =>
            /\ Ended(t, "start_all", "returned")
            /\ procs = h[t].eProcs /\ log_files = h[t].eLogs /\ started
            /\ nobjs = h[t].eObjs
            /\ h[t].attempted = {} /\ h[t].callObjs = {}
            /\ h[t].checked = {} /\ ~h[t].http

\* C7 witness: a start_all on a started supervisor has ended.
C7_Witness ==
    \E t \in Thread :
        /\ Ended(t, "start_all", "returned")
        /\ h[t].eStarted
        /\ Len(procs) = NumConfigs

\* C8: start_all returns only if started was true on entry or every
\* descriptor was spawned and reported healthy in that call; started
\* becomes true only on that path and is false after a start_all raised.
C8_StartedOnlyOnFullSuccess ==
    \A t \in Thread :
        /\ Ended(t, "start_all", "returned") =>
              \/ h[t].eStarted
              \/ h[t].spawned = Names /\ h[t].healthy = Names
        /\ (h[t].op = "start_all" /\ ~h[t].eStarted /\ started) =>
              /\ Ended(t, "start_all", "returned")
              /\ h[t].spawned = Names /\ h[t].healthy = Names
        /\ Ended(t, "start_all", "raised") => ~started

\* C8 witness: a start_all that had to spawn and check has returned.
C8_Witness ==
    \E t \in Thread :
        /\ Ended(t, "start_all", "returned")
        /\ ~h[t].eStarted
        /\ started

\* The case of C9: start_all raised; service a cannot be spawned (its
\* command names no executable) and service b, which was spawned, never
\* opens its port.
C9_Case(t, a, b) ==
    /\ Ended(t, "start_all", "raised")
    /\ config[a] = "bad_exe"
    /\ <<a, "popen_raise">> \in h[t].spawnFailed
    /\ config[b] = "no_port"
    /\ b \in h[t].spawned

\* C9 as stated: the error raised names both services, the one with its
\* spawn failure and the other with its health-check timeout.
C9_BothFailuresReported ==
    \A t \in Thread : \A a, b \in Names :
        C9_Case(t, a, b) =>
            /\ Err(a, "failed to start", "popen_raise") \in ErrorsRaised(t)
            /\ Err(b, "unhealthy", "timeout") \in ErrorsRaised(t)

\* C9 amended: the error raised holds the spawn failure of the service
\* that cannot be spawned and nothing else than spawn failures; the health
\* check of the other service was not run, so the error does not name it.
C9_OnlySpawnFailuresReported ==
    \A t \in Thread : \A a, b \in Names :
        C9_Case(t, a, b) =>
            /\ h[t].errType = "RuntimeError"
            /\ Err(a, "failed to start", "popen_raise") \in ErrorsRaised(t)
            /\ \A e \in ErrorsRaised(t) : e.what = "failed to start" /\ e.name # b
            /\ b \notin h[t].checked

\* C9 witness: start_all raised with one service that cannot be spawned
\* and one spawned service whose port never opens.
C9_Witness ==
    \E t \in Thread : \E a, b \in Names : C9_Case(t, a, b)

\* C10: when a spawn raised, the spawn of every descriptor was attempted
\* all the same, start_all raised one error naming exactly the services
\* whose spawn raised, each with its own failure, and every process the
\* call did spawn is gone.
C10_SpawnLoopRunsToTheEnd ==
    \A t \in Thread :
        (pc[t] = "idle" /\ h[t].op = "start_all" /\ h[t].spawnFailed # {}) =>
            /\ h[t].attempted = Names
            /\ h[t].out = "raised" /\ h[t].errType = "RuntimeError"
            /\ {<<e.name, e.what, e.why>> : e \in ErrorsRaised(t)}
                 = {<<f[1], "failed to start", f[2]>> : f \in h[t].spawnFailed}
            /\ Len(h[t].err) = Cardinality(h[t].spawnFailed)
            /\ \A o \in h[t].callProcs : ~alive[o]

\* C10 witness: the spawn of the first descriptor raised, the second was
\* spawned all the same, and start_all has raised.
C10_Witness ==
    \E t \in Thread :
        /\ Ended(t, "start_all", "raised")
        /\ \E f \in h[t].spawnFailed : f[1] = 1
        /\ h[t].callProcs # {}

\* Thread t is inside the polling loop of _wait_healthy.
InHealthWait(t) == pc[t] \in {"wh_check", "wh_get", "wh_root", "wh_sleep"}

\* C11: when every spawn succeeded and a health check failed, the health
\* check of every declared service was run all the same, start_all raised
\* one error naming exactly the services whose health check failed, each
\* with its reason, and every process the call spawned is gone.
C11_HealthFailuresAggregated ==
    \A t \in Thread :
        ( /\ pc[t] = "idle" /\ h[t].op = "start_all"
          /\ h[t].spawned = Names /\ h[t].spawnFailed = {}
          /\ h[t].unhealthy # {} ) =>
            /\ h[t].checked = Names
            /\ h[t].out = "raised" /\ h[t].errType = "RuntimeError"
            /\ {<<e.name, e.what, e.why>> : e \in ErrorsRaised(t)}
                 = {<<f[1], "unhealthy", f[2]>> : f \in h[t].unhealthy}
            /\ Len(h[t].err) = Cardinality(h[t].unhealthy)
            /\ \A o \in h[t].callProcs : ~alive[o]

\* C11 witness: the health check of the first service failed, the second
\* service was checked all the same and found healthy, and start_all raised.
C11_Witness ==
    \E t \in Thread :
        /\ Ended(t, "start_all", "raised")
        /\ \E f \in h[t].unhealthy : f[1] = 1
        /\ 2 \in h[t].healthy

\* C12: a service whose port never answers is never reported healthy, and
\* a health check that ends at the head of the loop while the process is
\* running ends with the timeout reason and not before start_timeout has
\* elapsed since the polling of that service began.
C12_TimeoutOnlyAfterStartTimeout ==
    /\ [](\A t \in Thread : \A n \in Names :
             config[n] = "no_port" => n \notin h[t].healthy)
    /\ [][\A t \in Thread :
             ( /\ pc[t] = "wh_check" /\ pc'[t] = "sa_health"
               /\ ~ProcGone(t) ) =>
                 /\ h'[t].unhealthy = h[t].unhealthy \cup {<<idx[t], "timeout">>}
                 /\ elapsed[t] >= StartTimeout]_vars

\* C12 witness: both services run and never open their port; start_all
\* raised with a timeout for each and had to stop the running processes.
C12_Witness ==
    \E t \in Thread :
        /\ Ended(t, "start_all", "raised")
        /\ \A n \in Names : config[n] = "no_port"
        /\ h[t].unhealthy = {<<n, "timeout">> : n \in Names}
        /\ h[t].terms # {}

\* C13: once the request to the root path, made after the first 404 of
\* the health path, has received a response of any status, the service is
\* reported healthy.
C13_AnyRootResponseHealthy ==
    \A t \in Thread : \A n \in Names :
        n \in h[t].rootAnswered => n \in h[t].healthy

\* C14 as stated: a poll iteration that finds the process of the service
\* exited ends the health check with the reason 'process exited' without
\* another request, and start_all then raises an error naming the service.
C14_ExitedFailsAsProcessExited ==
    /\ [][\A t \in Thread :
             (pc[t] = "wh_check" /\ pc'[t] # "wh_check" /\ ProcGone(t)) =>
                 /\ pc'[t] = "sa_health"
                 /\ h'[t].unhealthy = h[t].unhealthy \cup {<<idx[t], "exited">>}]_vars
    /\ [](\A t \in Thread :
             (pc[t] = "idle" /\ h[t].op = "start_all") =>
                 \A f \in h[t].unhealthy :
                     /\ h[t].out = "raised"
                     /\ Err(f[1], "unhealthy", f[2]) \in ErrorsRaised(t))

\* C14 amended: a poll iteration that finds the process of the service
\* exited ends the health check without another request; the reason is
\* 'process exited' if the deadline has not passed when the iteration
\* begins and the timeout reason if it has; start_all then raises an error
\* naming the service.
C14_ExitedFailsAtNextLoopTest ==
    /\ [][\A t \in Thread :
             (pc[t] = "wh_check" /\ pc'[t] # "wh_check" /\ ProcGone(t)) =>
                 /\ pc'[t] = "sa_health"
                 /\ h'[t].unhealthy = h[t].unhealthy \cup
                       {<<idx[t], IF elapsed[t] < deadline[t]
                                  THEN "exited" ELSE "timeout">>}]_vars
    /\ [](\A t \in Thread :
             (pc[t] = "idle" /\ h[t].op = "start_all") =>
                 \A f \in h[t].unhealthy :
                     /\ h[t].out = "raised"
                     /\ Err(f[1], "unhealthy", f[2]) \in ErrorsRaised(t))

\* C14 witness: a health request had been made, then the process was
\* found exited, and start_all raised.
C14_Witness ==
    \E t \in Thread :
        /\ Ended(t, "start_all", "raised")
        /\ h[t].http
        /\ \E n \in Names : <<n, "exited">> \in h[t].unhealthy

\* The longest one iteration of the polling loop can take: the health
\* request and then either the root request or the sleep.
PollStepMax ==
    ReqTimeout + (IF ReqTimeout > PollSleep THEN ReqTimeout ELSE PollSleep)

\* C15: every start_all in progress comes to an end, and inside the
\* health wait of a service less than one poll step has passed beyond its
\* start_timeout.
C15_StartAllTerminates ==
    /\ \A t \in Thread :
          (h[t].op = "start_all" /\ pc[t] # "idle") ~> (pc[t] = "idle")
    /\ [](\A t \in Thread :
             InHealthWait(t) => elapsed[t] < StartTimeout + PollStepMax)

\* C15 witness: start_all raised after a health wait that ran into its
\* timeout although requests were answered.
C15_Witness ==
    \E t \in Thread :
        /\ Ended(t, "start_all", "raised")
        /\ h[t].http
        /\ h[t].unhealthy = {<<NumConfigs, "timeout">>}
        /\ h[t].kills # {}

\* C16: in stop_all no kill step is taken before the terminate step has
\* been taken for every process tracked at its start, and no log file is
\* closed before the kill step has been taken for every one of them.
C16_PhasesOrdered ==
    \A t \in Thread :
        /\ h[t].killTried # {} => h[t].sProcs \subseteq h[t].termTried
        /\ h[t].closes # {} => h[t].sProcs \subseteq h[t].killTried

\* C16 witness: stop_all returned after it had killed a process and
\* closed the log files of two tracked processes.
C16_Witness ==
    \E t \in Thread :
        /\ Ended(t, "stop_all", "returned")
        /\ Cardinality(h[t].sProcs) = NumConfigs
        /\ h[t].kills # {}
        /\ Cardinality(h[t].closes) = NumConfigs

\* C20: a health-path request is never made right after another request
\* of the same health check: the sleep lies between them.
C20_SleepBetweenRequests ==
    \A t \in Thread :
        pc[t] = "wh_get" => h[t].sinceGet \in {"none", "slept"}

\* C19: with start_all and stop_all called from two threads, never more
\* child processes run than services are declared (none is spawned
\* twice), every running child is in the process map or about to be put
\* there, and once both calls have ended with started false no child runs.
C19_ConcurrentCallsSafe ==
    /\ Cardinality({o \in Objs : alive[o]}) <= NumConfigs
    /\ \A o \in Objs :
          alive[o] => o \in Values(procs) \/ \E t \in Thread : new_obj[t] = o
    /\ ( /\ \A t \in Thread : pc[t] = "idle" /\ h[t].op # "none"
         /\ ~started )
       => \A o \in Objs : ~alive[o]

\* C21: within one health check the root path is asked at most once, and
\* only when the health path has just answered 404; a 404 answered after
\* that starts the next iteration; a root request that does not end the
\* health check is followed by the next iteration, and a health check fails
\* only because the process was found exited or the time ran out.
C21_SingleRootFallback ==
    /\ [](\A t \in Thread :
             /\ h[t].rootAsked <= 1
             /\ pc[t] = "wh_root" => h[t].sinceGet = "404"
             /\ \A f \in h[t].unhealthy : f[2] \in {"exited", "timeout"})
    /\ [][\A t \in Thread :
             /\ (pc[t] = "wh_get" /\ pc'[t] = "wh_root") =>
                    h[t].rootAsked = 0 /\ h'[t].rootAsked = 1
             /\ (pc[t] = "wh_get" /\ pc'[t] # "wh_get" /\ h[t].rootAsked = 1
                   /\ h'[t].sinceGet = "404") => pc'[t] = "wh_check"
             /\ (pc[t] = "wh_root" /\ pc'[t] # "wh_root") =>
                    \/ pc'[t] = "wh_check"
                    \/ pc'[t] = "sa_health" /\ idx[t] \in h'[t].healthy]_vars

\* C21 witness: the root path has been asked once, it did not show the
\* service listening, and the health path has answered 404 again: the
\* loop is at the head of its next iteration.
C21_Witness ==
    \E t \in Thread :
        /\ pc[t] = "wh_check"
        /\ h[t].rootAsked = 1
        /\ h[t].sinceGet = "404"

\* C22: in Phases 1, 3 and 4 of stop_all a step whose terminate, kill,
\* wait or close raised is followed by the step for the next process or
\* log file, so that Phase 3 is entered only when the terminate step has
\* been taken for every tracked process, Phase 4 only when the kill step
\* has been taken for every one of them, and a stop_all that ended without
\* an exception has taken the close step for every tracked log file.
C22_FailuresIsolated ==
    /\ [][\A t \in Thread :
             (h'[t].faults # h[t].faults /\ InStopAll(t)) =>
                 /\ pc'[t] = pc[t] /\ items'[t] = items[t]
                 /\ idx'[t] = idx[t] + 1]_vars
    /\ [](\A t \in Thread :
             /\ pc[t] = "st_kill" => h[t].sProcs \subseteq h[t].termTried
             /\ pc[t] = "st_close" =>
                    /\ h[t].sProcs \subseteq h[t].killTried
                    /\ {items[t][k][2] : k \in 1..(idx[t] - 1)}
                          \subseteq h[t].closes
             /\ ( /\ pc[t] = "idle" /\ h[t].errType # "stop_all"
                  /\ h[t].sProcs # {} ) =>
                    /\ h[t].sProcs \subseteq h[t].termTried
                    /\ h[t].sProcs \subseteq h[t].killTried
                    /\ h[t].sLogs \subseteq h[t].closes)

\* C22 witness: stop_all returned; the terminate step of the first of two
\* tracked processes raised, the second one was sent the terminate signal
\* all the same, and both log files were closed.
C22_Witness ==
    \E t \in Thread :
        /\ Ended(t, "stop_all", "returned")
        /\ \E o, o2 \in h[t].sProcs :
              /\ o < o2
              /\ <<"phase1", o>> \in h[t].faults
              /\ o2 \in h[t].terms
        /\ Cardinality(h[t].closes) = NumConfigs
        /\ h[t].sLogs \subseteq h[t].closes

\* C23: a step of Phase 1 sends the terminate signal to the process it
\* is at if that process is running and to no other process: never to one
\* that has exited, and always to a running one unless poll or terminate
\* raised; only tracked processes are signalled.
C23_TerminateOnlyRunning ==
    /\ [][\A t \in Thread :
             (pc[t] = "st_term" /\ idx'[t] = idx[t] + 1) =>
                 LET o == items[t][idx[t]][2]
                 IN /\ h'[t].terms \subseteq h[t].terms \cup {o}
                    /\ o \in h'[t].terms => alive[o]
                    /\ (alive[o] /\ h'[t].faults = h[t].faults) =>
                           o \in h'[t].terms]_vars
    /\ [](\A t \in Thread : h[t].terms \subseteq h[t].sProcs)

\* C23 witness: stop_all returned without a fault; of two tracked
\* processes one had exited before Phase 1 and was not signalled, the
\* other was.
C23_Witness ==
    \E t \in Thread :
        /\ Ended(t, "stop_all", "returned")
        /\ h[t].faults = {}
        /\ Cardinality(h[t].sProcs) = NumConfigs
        /\ h[t].sProcs \subseteq h[t].termTried
        /\ Cardinality(h[t].terms) = 1

\* C24: in Phase 2 stop_all is never blocked (a step of the wait loop can
\* always be taken), it sleeps only while a tracked process is running and
\* the time allowed has not run out, and from the start of Phase 2 on no
\* more time has passed than the allowance per process times the number of
\* tracked processes; the loop is left for the deadline only when that
\* time has passed.
C24_BoundedWait ==
    /\ [](\A t \in Thread :
             /\ pc[t] = "st_wait" => ENABLED stop_wait(t)
             /\ pc[t] \in {"st_wait", "st_kill", "st_close"} =>
                    /\ elapsed[t] <= StopWaitPerProc * Cardinality(h[t].sProcs)
                    /\ h[t].waitedOut # {} =>
                           elapsed[t] = StopWaitPerProc * Cardinality(h[t].sProcs))
    /\ [][\A t \in Thread :
             /\ (pc[t] = "st_wait" /\ elapsed'[t] # elapsed[t]) =>
                    /\ \E o \in h[t].sProcs : alive[o]
                    /\ pc'[t] = "st_wait"
                    /\ elapsed'[t] = elapsed[t] + StopSleep
             /\ ( /\ pc[t] = "st_wait" /\ pc'[t] = "st_wait"
                  /\ \A o \in h[t].sProcs : ~alive[o] ) =>
                    elapsed'[t] = elapsed[t]]_vars

\* C24 witness: two processes were tracked, one of them did not exit
\* within the time allowed, and stop_all left the wait loop when twice
\* the allowance per process had passed.
C24_Witness ==
    \E t \in Thread :
        /\ pc[t] = "st_kill"
        /\ Cardinality(h[t].sProcs) = NumConfigs
        /\ h[t].waitedOut # {}
        /\ elapsed[t] = StopWaitPerProc * NumConfigs

\* C25: a step of Phase 3 kills the process it is at if that process is
\* running and no other: never one that has exited, and always a running
\* one unless poll, kill or wait raised, and the process is gone when kill
\* and wait have returned; a process that had exited when the wait loop of
\* Phase 2 was left is never killed, nor is an untracked one.
C25_KillOnlyStragglers ==
    /\ [][\A t \in Thread :
             (pc[t] = "st_kill" /\ idx'[t] = idx[t] + 1) =>
                 LET o == items[t][idx[t]][2]
                 IN /\ h'[t].kills \subseteq h[t].kills \cup {o}
                    /\ o \in h'[t].kills => alive[o]
                    /\ (alive[o] /\ h'[t].faults = h[t].faults) =>
                           o \in h'[t].kills /\ ~alive'[o]
                    /\ ~alive[o] => alive' = alive]_vars
    /\ [](\A t \in Thread :
             h[t].kills \subseteq h[t].waitedOut \cap h[t].sProcs)

\* C25 witness: stop_all returned without a fault; of two tracked
\* processes one had exited when the wait loop was left and was not
\* killed, the other was killed and is gone.
C25_Witness ==
    \E t \in Thread :
        /\ Ended(t, "stop_all", "returned")
        /\ h[t].faults = {}
        /\ Cardinality(h[t].sProcs) = NumConfigs
        /\ h[t].sProcs \subseteq h[t].killTried
        /\ Cardinality(h[t].kills) = 1
        /\ h[t].kills = h[t].waitedOut
        /\ \A o \in h[t].kills : ~alive[o]

\* C26: when stop_all has returned, to the application or to the
\* start_all that called it, the process map is empty, the log-file map is
\* empty and started is false, whatever they were when it was called.
C26_StopAllResets ==
    \A t \in Thread :
        ( \/ Ended(t, "stop_all", "returned")
          \/ Ended(t, "start_all", "raised") /\ h[t].errType = "RuntimeError" ) =>
            procs = <<>> /\ log_files = <<>> /\ ~started

\* C26 witness: stop_all has returned on a supervisor that was started
\* and tracked a process and a log file for every service.
C26_Witness ==
    \E t \in Thread :
        /\ Ended(t, "stop_all", "returned")
        /\ h[t].eStarted
        /\ Len(h[t].eProcs) = NumConfigs
        /\ Len(h[t].eLogs) = NumConfigs

\* The services whose health check has ended in the call of t.
HealthChecked(t) == h[t].healthy \cup {f[1] : f \in h[t].unhealthy}

\* C27: in start_all the services whose spawn has been attempted are the
\* first ones in the order of construction, and so are those whose health
\* check has begun; no health check begins, and no health request is made,
\* before the spawn of every service has been attempted; and the health
\* check of a service begins only when that of every service before it
\* has ended.
C27_StartupOrdered ==
    \A t \in Thread :
        h[t].op = "start_all" =>
            /\ \E k \in 0..NumConfigs : h[t].attempted = 1..k
            /\ \E k \in 0..NumConfigs : h[t].checked = 1..k
            /\ pc[t] = "sa_spawn" => h[t].attempted = 1..(idx[t] - 1)
            /\ pc[t] = "sa_track" => h[t].attempted = 1..idx[t]
            /\ h[t].checked # {} => h[t].attempted = Names
            /\ h[t].http => h[t].checked # {}
            /\ IF InHealthWait(t)
               THEN /\ h[t].checked = 1..idx[t]
                    /\ HealthChecked(t) = 1..(idx[t] - 1)
               ELSE HealthChecked(t) = h[t].checked

\* C27 witness: every service has been spawned, the first one has been
\* found healthy and a health request has been made to the second.
C27_Witness ==
    \E t \in Thread :
        /\ pc[t] = "wh_sleep"
        /\ idx[t] = NumConfigs
        /\ h[t].spawned = Names
        /\ HealthChecked(t) = 1..(NumConfigs - 1)

\* C28: a tracked log file is closed only by a step of Phase 4 of
\* stop_all, and whenever no call is in progress the services with a
\* tracked log file are those with a tracked process and every tracked log
\* file is open.
C28_LogSinkLifetime ==
    /\ [][\A o \in Values(log_files) :
             (isopen[o] /\ ~isopen'[o]) =>
                 \E t \in Thread :
                     /\ pc[t] = "st_close"
                     /\ idx[t] <= Len(items[t])
                     /\ items[t][idx[t]][2] = o]_vars
    /\ []((\A t \in Thread : pc[t] = "idle") =>
             /\ Keys(log_files) = Keys(procs)
             /\ \A o \in Values(log_files) : isopen[o])

\* C28 witness: start_all has returned, every service has its log file
\* tracked and open, and one of the processes has exited since.
C28_Witness ==
    \E t \in Thread :
        /\ Ended(t, "start_all", "returned")
        /\ Keys(log_files) = Names
        /\ \A o \in Values(log_files) : isopen[o]
        /\ \E o \in Values(procs) : ~alive[o]

\* C29: a service is reported healthy only by the answer to a request
\* made in an iteration whose poll found its tracked process running, the
\* request is made only after such a poll, and an iteration that finds the
\* service absent from the process map or its process exited ends the
\* health check with a failure; a service whose health check failed is
\* not reported healthy.
C29_HealthyOnlyIfPolledRunning ==
    /\ [][\A t \in Thread :
             /\ ( /\ InHealthWait(t)
                  /\ idx[t] \in h'[t].healthy /\ idx[t] \notin h[t].healthy ) =>
                    /\ pc[t] \in {"wh_get", "wh_root"}
                    /\ h[t].polled = "running"
                    /\ Has(procs, idx[t])
             /\ ( /\ pc[t] = "wh_check" /\ pc'[t] # "wh_check"
                  /\ ProcGone(t) ) =>
                    /\ pc'[t] = "sa_health"
                    /\ idx[t] \notin h'[t].healthy
                    /\ \E f \in h'[t].unhealthy : f[1] = idx[t]]_vars
    /\ [](\A t \in Thread :
             /\ pc[t] \in {"wh_get", "wh_root"} => h[t].polled = "running"
             /\ \A f \in h[t].unhealthy : f[1] \notin h[t].healthy)

\* C29 witness: the first service has just been reported healthy through
\* the answer of the root path, its process tracked.
C29_Witness ==
    \E t \in Thread :
        /\ pc[t] = "sa_health"
        /\ idx[t] = 2
        /\ Has(procs, 1)
        /\ 1 \in h[t].healthy
        /\ 1 \in h[t].rootAnswered

\* The positions of calls where func was called, and where it was slept.
FuncCalls == {k \in DOMAIN calls : calls[k].ev = "call"}

Sleeps == {k \in DOMAIN calls : calls[k].ev = "sleep"}

\* C30: func is called at most max_retries times; a call that returned a
\* value is the last thing _retry_request did and its value is what is
\* returned; every sleep comes right after a failed call and right before
\* the next call, and the n-th sleep lasts 2^(n-1) seconds; when the
\* max_retries-th call has failed nothing follows it and that failure is
\* raised; a wrapper returns a value whatever happened and never raises.
C30_RetryWithBackoff ==
    /\ Cardinality(FuncCalls) <= max_retries
    /\ \A k \in FuncCalls :
          calls[k].res = "value" =>
              /\ k = Len(calls)
              /\ rpc = "idle" /\ rout = [out |-> "returned", val |-> "value"]
    /\ \A k \in Sleeps :
          /\ k > 1 /\ calls[k - 1].ev = "call" /\ calls[k - 1].res \in Retried
          /\ k < Len(calls) => calls[k + 1].ev = "call"
          /\ k = Len(calls) => rpc = "attempt" /\ attempt < max_retries
          /\ calls[k].dur = 2 ^ (Cardinality({j \in Sleeps : j < k}))
    /\ ( /\ Cardinality(FuncCalls) = max_retries /\ max_retries > 0
         /\ calls[Len(calls)].res \in Retried ) =>
            /\ rpc = "idle"
            /\ caller = "none" =>
                   rout = [out |-> "raised", val |-> calls[Len(calls)].res]
            /\ caller # "none" =>
                   rout = [out |-> "returned", val |-> "failure"]
    /\ caller # "none" => rout.out # "raised"

\* C30 witness: a direct call with max_retries 4 has failed four times,
\* slept 1, 2 and 4 seconds in between, and raised the last failure.
C30_Witness ==
    /\ rpc = "idle" /\ caller = "none" /\ max_retries = 4
    /\ Len(calls) = 7
    /\ [k \in 1..3 |-> calls[2 * k].dur] = <<1, 2, 4>>
    /\ rout = [out |-> "raised", val |-> "Timeout"]

\* C17: a thread never waits for the manager's lock while holding it
\* itself, and once set_error (complete_session) on an existing session
\* has returned the lock is not held by the caller, the session has
\* status error (completed, with progress 100) and the log entry is there.
C17_ManagerCallsReturn ==
    \A t \in Thread :
        /\ gpc[t] = "lock" => lock # t
        /\ ( /\ gpc[t] = "idle" /\ gop[t].existed
             /\ gop[t].op \in {"set_error", "complete_session"} ) =>
               LET ss == sessions[gop[t].sid]
               IN /\ lock # t
                  /\ ss.logs # <<>>
                  /\ gop[t].op = "set_error" =>
                        ss.status = "error" /\ ss.logs[Len(ss.logs)] = "ERROR"
                  /\ gop[t].op = "complete_session" =>
                        /\ ss.status = "completed" /\ ss.progress = 100
                        /\ ss.logs[Len(ss.logs)] = "SUCCESS"

\* C18: after can_reserve_requests the quota file holds what it held
\* before the call.
C18_CanReserveWritesNothing ==
    qlast.op = "can_reserve_requests" => quota_file = qlast.before

====
